---- MODULE Spec2Model ----
(***************************************************************************)
(* Model of src/main.py: the legal-document generators generate_privacy    *)
(* and generate_terms, and the POST /api/generate handler generate_docs.   *)
(*                                                                         *)
(* A Python str is modelled as a sequence of tokens.  A token is either a  *)
(* run of literal template text that holds no line break (one TLA+ string, *)
(* its length is the length of the Python text) or one character of        *)
(* caller-supplied text.  The line break "\n" is always a token of its     *)
(* own, so that lines and section headings can be read back from the       *)
(* rendered document.  The non-breaking hyphen U+2011 of the source        *)
(* templates is written "-" here; it has the same length.                  *)
(*                                                                         *)
(* An Optional[...] field is <<>> for None and <<v>> for the value v.      *)
(***************************************************************************)
EXTENDS Integers, Sequences, FiniteSets, TLC

(***************************************************************************)
(* Bounds of the model.                                                    *)
(***************************************************************************)
\* longest business_name, in characters
MaxNameLen == 3
\* number of calendar days the system clock can show during a run
MaxDay == 2

(***************************************************************************)
(* Text primitives.                                                        *)
(***************************************************************************)
NL == "\n"

None == <<>>

Some(v) == <<v>>

\* Python truthiness of an Optional[str]: None and "" are both falsy.
Truthy(opt) == opt # None /\ opt[1] # <<>>

\* x or default, for an Optional[str] x
OrDefault(opt, default) == IF Truthy(opt) THEN opt[1] ELSE default

\* characters that str.strip() removes (the ones the model's names use)
Whitespace == {" ", "\n", "\t"}

RECURSIVE lstrip(_)
lstrip(s) == IF s = <<>> \/ Head(s) \notin Whitespace THEN s ELSE lstrip(Tail(s))

RECURSIVE rstrip(_)
rstrip(s) ==
  IF s = <<>> \/ s[Len(s)] \notin Whitespace THEN s
  ELSE rstrip(SubSeq(s, 1, Len(s) - 1))

\* str.strip()
strip(s) == rstrip(lstrip(s))

\* "-" * n
RECURSIVE Dashes(_)
Dashes(n) == IF n <= 0 THEN "" ELSE "-" \o Dashes(n - 1)

\* sep.join(parts)
RECURSIVE Join(_, _)
Join(parts, sep) ==
  IF parts = <<>> THEN <<>>
  ELSE IF Len(parts) = 1 THEN parts[1]
  ELSE parts[1] \o sep \o Join(Tail(parts), sep)

\* an integer as decimal digits, zero-padded to at least w digits
RECURSIVE Pad(_, _)
Pad(n, w) == IF Len(ToString(n)) >= w THEN ToString(n) ELSE "0" \o Pad(n, w - 1)

(***************************************************************************)
(* The system calendar and dates.                                          *)
(***************************************************************************)
\* the calendar date shown by the system clock on its n-th day of the run
DateOf(n) ==
  IF n = 1 THEN [y |-> 2024, m |-> 12, d |-> 31]
  ELSE [y |-> 2025, m |-> 1, d |-> n - 1]

\* date.isoformat(): YYYY-MM-DD
isoformat(dt) == Pad(dt.y, 4) \o "-" \o Pad(dt.m, 2) \o "-" \o Pad(dt.d, 2)

(***************************************************************************)
(* Section Formatter and Field Normalizer.                                 *)
(***************************************************************************)
\* _format_heading(text): blank line, title, underline, blank line
_format_heading(text) == <<NL, NL, text, NL, Dashes(Len(text)), NL, NL>>

\* bn = req.business_name.strip()
bn(req) == strip(req.business_name)

\* email = req.contact_email or "support@example.com"
email(req) == OrDefault(req.contact_email, <<"support@example.com">>)

\* juris = req.jurisdiction or "your jurisdiction"
juris(req) == OrDefault(req.jurisdiction, <<"your jurisdiction">>)

\* url of generate_privacy: str(req.website_url) if req.website_url else ...
privacy_url(req) ==
  IF req.website_url # None THEN req.website_url[1] ELSE <<"your website/app">>

\* url of generate_terms
terms_url(req) ==
  IF req.website_url # None THEN req.website_url[1] ELSE <<"our Service">>

\* does the composer call date.today()?  Only when effective_date is None.
ReadsClock(req) == req.effective_date = None

\* eff with the request's date ignored: always the clock's
eff_today(req, today) == isoformat(today)

\* eff = req.effective_date.isoformat() if req.effective_date
\*       else date.today().isoformat()
eff(req, today) ==
  IF req.effective_date # None THEN isoformat(req.effective_date[1])
  ELSE isoformat(today)

(***************************************************************************)
(* Privacy Policy Composer: one operator per parts.append, giving the      *)
(* parts it appends (none when the clause is left out).                    *)
(***************************************************************************)
PrivacyTitle(req, today) ==
  << <<"Privacy Policy for ">> \o bn(req) \o <<NL, "Effective date: ", eff(req, today)>> >>

PrivacyIntroduction(req) ==
  << _format_heading("Introduction") \o
     (IF Truthy(req.description) THEN req.description[1]
      ELSE <<"This Privacy Policy explains how ">> \o bn(req) \o
           <<" collects, uses, and shares information when you use ">> \o
           privacy_url(req) \o <<" (the \"Service\").">>) >>

PrivacyInformationWeCollect(req) ==
  IF req.collects_personal_data
  THEN << _format_heading("Information We Collect") \o
          <<"We may collect information you provide directly (such as name, email address, billing details) and information collected automatically (such as IP address, device info, pages viewed).">> >>
  ELSE << _format_heading("Information We Collect") \o
          <<"We do not intentionally collect personal information. Limited technical data may be processed to operate the Service.">> >>

uses_cookie_line(req) ==
  IF req.uses_cookies
  THEN "We use cookies and similar technologies to remember preferences and to understand how the Service is used."
  ELSE "We do not use cookies for tracking beyond what is strictly necessary to operate the Service."

\* the analytics sentence left out, instead of denied, when the flag is false
analytics_line_omitted(req) ==
  IF req.uses_analytics
  THEN "We use analytics to understand usage and improve the Service."
  ELSE ""

analytics_line(req) ==
  IF req.uses_analytics
  THEN "We use analytics to understand usage and improve the Service."
  ELSE "We do not use third-party analytics tools for tracking."

PrivacyHowWeUse(req) ==
  << _format_heading("How We Use Information") \o
     <<"We use information to provide and improve the Service, communicate with you, personalize content, ensure security, and comply with legal obligations.">> >>

PrivacyCookies(req) ==
  << _format_heading("Cookies & Tracking") \o
     <<uses_cookie_line(req), " ", analytics_line(req)>> >>

\* the third-party clause chosen by the wrong flag
PrivacyThirdPartyByCollects(req) ==
  IF req.collects_personal_data
  THEN << _format_heading("Third-Party Services") \o
          <<"We may share information with service providers that help us operate the Service (e.g., hosting, payments, analytics). These providers may process data on our behalf and are bound by contractual obligations.">> >>
  ELSE << _format_heading("Third-Party Services") \o
          <<"We do not share personal information with third parties except as required by law or to protect our rights.">> >>

PrivacyThirdParty(req) ==
  IF req.uses_third_party_tools
  THEN << _format_heading("Third-Party Services") \o
          <<"We may share information with service providers that help us operate the Service (e.g., hosting, payments, analytics). These providers may process data on our behalf and are bound by contractual obligations.">> >>
  ELSE << _format_heading("Third-Party Services") \o
          <<"We do not share personal information with third parties except as required by law or to protect our rights.">> >>

PrivacyAccounts(req) ==
  IF req.allows_user_accounts
  THEN << _format_heading("Accounts") \o
          <<"If you create an account, you are responsible for maintaining the confidentiality of your credentials and for any activity under your account.">> >>
  ELSE <<>>

\* the user-content clause gated by the accounts flag
PrivacyUserContentByAccounts(req) ==
  IF req.allows_user_accounts
  THEN << _format_heading("User-Generated Content") \o
          <<"Content you submit may be publicly visible depending on your settings. Do not share personal information you prefer to keep private.">> >>
  ELSE <<>>

PrivacyUserContent(req) ==
  IF req.allows_user_content
  THEN << _format_heading("User-Generated Content") \o
          <<"Content you submit may be publicly visible depending on your settings. Do not share personal information you prefer to keep private.">> >>
  ELSE <<>>

PrivacyChildren(req) ==
  IF Truthy(req.age_restriction)
  THEN << _format_heading("Children's Privacy") \o
          <<"The Service is intended for users ">> \o req.age_restriction[1] \o
          <<". We do not knowingly collect personal information from children in violation of applicable laws.">> >>
  ELSE << _format_heading("Children's Privacy") \o
          <<"The Service is not directed to children under the age required by applicable law. We do not knowingly collect personal information from children.">> >>

PrivacyDataRetention(req) ==
  << _format_heading("Data Retention") \o
     <<"We retain information for as long as necessary to provide the Service, comply with obligations, resolve disputes, and enforce agreements.">> >>

PrivacyYourRights(req) ==
  << _format_heading("Your Rights") \o
     <<"Depending on your location (">> \o juris(req) \o
     <<"), you may have rights to access, correct, delete, or restrict processing of your personal information, and to object or withdraw consent.">> >>

PrivacySecurity(req) ==
  << _format_heading("Security") \o
     <<"We implement reasonable technical and organizational measures to protect information. No method of transmission or storage is completely secure.">> >>

\* contact_lines, then "\n".join(contact_lines)
contact_lines(req) ==
  << <<"Email: ">> \o email(req) >> \o
  (IF Truthy(req.company_address)
   THEN << <<"Address: ">> \o req.company_address[1] >>
   ELSE <<>>)

PrivacyContactUs(req) ==
  << _format_heading("Contact Us") \o Join(contact_lines(req), <<NL>>) >>

PrivacyChanges(req) ==
  << _format_heading("Changes to this Policy") \o
     <<"We may update this Privacy Policy from time to time. We will revise the effective date above and post the updated version on this page.">> >>

PrivacyJurisdiction(req) ==
  << _format_heading("Jurisdiction") \o
     <<"This Policy is governed by the laws of ">> \o juris(req) \o
     <<" unless otherwise required by applicable law.">> >>

\* generate_privacy(req), with the clock's date at the call
generate_privacy(req, today) ==
  Join(PrivacyTitle(req, today) \o PrivacyIntroduction(req) \o
       PrivacyInformationWeCollect(req) \o PrivacyHowWeUse(req) \o
       PrivacyCookies(req) \o PrivacyThirdParty(req) \o PrivacyAccounts(req) \o
       PrivacyUserContent(req) \o PrivacyChildren(req) \o
       PrivacyDataRetention(req) \o PrivacyYourRights(req) \o
       PrivacySecurity(req) \o PrivacyContactUs(req) \o PrivacyChanges(req) \o
       PrivacyJurisdiction(req),
       <<NL, NL>>)

(***************************************************************************)
(* Terms of Service Composer.                                              *)
(***************************************************************************)
TermsTitle(req, today) ==
  << <<"Terms of Service for ">> \o bn(req) \o <<NL, "Effective date: ", eff(req, today)>> >>

TermsAgreement(req) ==
  << _format_heading("Agreement to Terms") \o
     <<"By accessing or using ">> \o terms_url(req) \o
     <<", you agree to be bound by these Terms. If you do not agree, do not use the Service.">> >>

TermsUse(req) ==
  << _format_heading("Use of the Service") \o
     <<"You may use the Service only in compliance with these Terms and all applicable laws. We may suspend or terminate access for conduct that violates these Terms or harms the Service.">> >>

\* the accounts clause of the Terms appended whatever the flag
TermsAccountsAlways(req) ==
  << _format_heading("Accounts & Security") \o
     <<"You must provide accurate information and keep your account secure. You are responsible for activities under your account.">> >>

TermsAccounts(req) ==
  IF req.allows_user_accounts
  THEN << _format_heading("Accounts & Security") \o
          <<"You must provide accurate information and keep your account secure. You are responsible for activities under your account.">> >>
  ELSE <<>>

TermsUserContent(req) ==
  IF req.allows_user_content
  THEN << _format_heading("User Content") \o
          <<"You retain ownership of content you submit. By submitting content, you grant us a non-exclusive, worldwide, royalty-free license to use, reproduce, and display it to operate the Service. You represent that your content does not infringe others' rights.">> >>
  ELSE <<>>

TermsProhibited(req) ==
  << _format_heading("Prohibited Activities") \o
     <<"You agree not to: (i) misuse or interfere with the Service; (ii) reverse engineer; (iii) upload malware; (iv) violate laws; (v) infringe intellectual property or privacy rights.">> >>

TermsIntellectualProperty(req) ==
  << _format_heading("Intellectual Property") \o
     <<"All rights, title, and interest in the Service (excluding user content) are owned by ">> \o
     bn(req) \o <<" and its licensors.">> >>

TermsFees(req) ==
  << _format_heading("Fees & Payments") \o
     <<"If the Service includes paid features, you agree to pay applicable fees and taxes. Payments are non-refundable except as required by law or our stated policy.">> >>

TermsDisclaimers(req) ==
  << _format_heading("Disclaimers") \o
     <<"THE SERVICE IS PROVIDED \"AS IS\" WITHOUT WARRANTIES OF ANY KIND, EXPRESS OR IMPLIED. WE DISCLAIM ALL WARRANTIES OF MERCHANTABILITY, FITNESS FOR A PARTICULAR PURPOSE, AND NON-INFRINGEMENT.">> >>

TermsLiability(req) ==
  << _format_heading("Limitation of Liability") \o
     <<"TO THE MAXIMUM EXTENT PERMITTED BY LAW, WE WILL NOT BE LIABLE FOR INDIRECT, INCIDENTAL, SPECIAL, CONSEQUENTIAL, OR PUNITIVE DAMAGES, OR ANY LOSS OF PROFITS OR DATA.">> >>

TermsIndemnification(req) ==
  << _format_heading("Indemnification") \o
     <<"You agree to defend, indemnify, and hold harmless us and our affiliates from claims arising out of your use of the Service or your violation of these Terms.">> >>

TermsGoverningLaw(req) ==
  << _format_heading("Governing Law; Disputes") \o
     <<"These Terms are governed by the laws of ">> \o juris(req) \o
     <<", without regard to conflict of law principles. Venue and jurisdiction will lie in the courts located in ">> \o
     juris(req) \o <<", unless otherwise required by law.">> >>

TermsTermination(req) ==
  << _format_heading("Termination") \o
     <<"We may suspend or terminate your access at any time for any reason. Upon termination, provisions that by their nature should survive will survive.">> >>

TermsChanges(req) ==
  << _format_heading("Changes to Terms") \o
     <<"We may update these Terms from time to time. By continuing to use the Service after changes take effect, you agree to the revised Terms.">> >>

\* the Contact clause of the Terms repeating the contact email
TermsContactWithEmail(req) ==
  << _format_heading("Contact") \o
     <<"For questions about these Terms, please contact us at ">> \o email(req) \o <<".">> >>

TermsContact(req) ==
  << _format_heading("Contact") \o
     <<"For questions about these Terms, please contact us at the email listed in the Privacy Policy.">> >>

\* generate_terms(req), with the clock's date at the call
generate_terms(req, today) ==
  Join(TermsTitle(req, today) \o TermsAgreement(req) \o TermsUse(req) \o
       TermsAccounts(req) \o TermsUserContent(req) \o TermsProhibited(req) \o
       TermsIntellectualProperty(req) \o TermsFees(req) \o
       TermsDisclaimers(req) \o TermsLiability(req) \o
       TermsIndemnification(req) \o TermsGoverningLaw(req) \o
       TermsTermination(req) \o TermsChanges(req) \o TermsContact(req),
       <<NL, NL>>)

(***************************************************************************)
(* Requests: the validated GenerateRequest payloads the handler receives.  *)
(***************************************************************************)
\* characters a business name is made of: a letter, a blank, a line break
NameChars == {"A", " ", NL}

RECURSIVE SeqsUpTo(_, _)
SeqsUpTo(S, n) ==
  IF n = 0 THEN {<<>>}
  ELSE LET shorter == SeqsUpTo(S, n - 1)
       IN  shorter \cup {Append(t, c) : t \in {u \in shorter : Len(u) = n - 1}, c \in S}

\* business_name: str, non-empty
BusinessNames == SeqsUpTo(NameChars, MaxNameLen) \ {<<>>}

\* effective_date: Optional[date]
EffectiveDates == {None, Some(DateOf(1)), Some([y |-> 987, m |-> 6, d |-> 5])}

\* description: Optional[str]; "" is a str
Descriptions == {None, Some(<<>>), Some(<<"We sell anvils.">>)}

AgeRestrictions == {None, Some(<<"18+">>)}

Jurisdictions == {None, Some(<<"India">>)}

CompanyAddresses == {None, Some(<<"1 Main St">>)}

ContactEmails == {None, Some(<<"legal@acme.example">>)}

WebsiteUrls == {None, Some(<<"https://acme.example/">>)}

BusinessTypes == {<<"LLC">>, <<"Non-profit">>}

Industries == {None, Some(<< <<"SaaS">>, <<"health">> >>)}

\* GenerateRequest with the field defaults of the class and a plain name
DefaultRequest ==
  [business_name |-> <<"A">>, business_type |-> <<"LLC">>,
   website_url |-> None, contact_email |-> None, jurisdiction |-> None,
   company_address |-> None, effective_date |-> None, description |-> None,
   industries |-> None,
   collects_personal_data |-> TRUE, uses_cookies |-> TRUE,
   uses_analytics |-> TRUE, uses_third_party_tools |-> TRUE,
   allows_user_accounts |-> TRUE, allows_user_content |-> FALSE,
   age_restriction |-> None]

\* every combination of the six feature flags, with and without a
\* description and an effective date
FlagRequests ==
  {[DefaultRequest EXCEPT !.collects_personal_data = f[1], !.uses_cookies = f[2],
                          !.uses_analytics = f[3], !.uses_third_party_tools = f[4],
                          !.allows_user_accounts = f[5], !.allows_user_content = f[6],
                          !.description = de, !.effective_date = ed] :
     f \in [1..6 -> BOOLEAN], de \in Descriptions,
     ed \in {None, Some(DateOf(1))}}

\* every combination of the optional text fields around the two clauses a
\* flag can leave out
TextRequests ==
  {[DefaultRequest EXCEPT !.website_url = wu, !.contact_email = ce,
                          !.jurisdiction = ju, !.company_address = ca,
                          !.age_restriction = ar, !.description = de,
                          !.allows_user_content = uc] :
     wu \in WebsiteUrls, ce \in ContactEmails, ju \in Jurisdictions,
     ca \in CompanyAddresses, ar \in AgeRestrictions, de \in Descriptions,
     uc \in BOOLEAN}

\* every business name, with every effective date
NameRequests ==
  {[DefaultRequest EXCEPT !.business_name = n, !.effective_date = ed] :
     n \in BusinessNames, ed \in EffectiveDates}

\* the fields no composer reads
TypeRequests ==
  {[DefaultRequest EXCEPT !.business_type = bt, !.industries = ind,
                          !.contact_email = ce] :
     bt \in BusinessTypes, ind \in Industries, ce \in ContactEmails}

Requests == FlagRequests \cup TextRequests \cup NameRequests \cup TypeRequests

(***************************************************************************)
(* The handler generate_docs, one call at a time, and the system clock.    *)
(***************************************************************************)
VARIABLES
  clock,       \* the day the system clock shows (an index of DateOf)
  pc,          \* where the handler is: idle, privacy, terms, return, done
  payload,     \* Some(request) while a call is running
  privacy,     \* the local variable privacy
  terms,       \* the local variable terms
  response,    \* Some(what the call returned or raised) once it ended
  privacyRead, \* Some(day) when generate_privacy called date.today()
  termsRead    \* Some(day) when generate_terms called date.today()

vars == <<clock, pc, payload, privacy, terms, response, privacyRead, termsRead>>

\* the exception a composer raises on a validated request: str.strip,
\* str(...), date.isoformat, str.join and the f-strings raise none
ComposerFault(req) == None

\* the response with the Privacy Policy in both fields
GenerateResponseSameDocument(p, t) ==
  [status |-> 200, privacy_policy |-> p, terms_of_service |-> p]

\* GenerateResponse(privacy_policy=privacy, terms_of_service=terms)
GenerateResponse(p, t) ==
  [status |-> 200, privacy_policy |-> p, terms_of_service |-> t]

\* HTTPException(status_code=400, detail=str(e))
HTTPException(detail) == [status |-> 400, detail |-> detail]

Init ==
  /\ clock = 1
  /\ pc = "idle"
  /\ payload = None
  /\ privacy = None
  /\ terms = None
  /\ response = None
  /\ privacyRead = None
  /\ termsRead = None

\* the calendar date changes (midnight passes)
Tick ==
  /\ clock < MaxDay
  /\ clock' = clock + 1
  /\ UNCHANGED <<pc, payload, privacy, terms, response, privacyRead, termsRead>>

\* POST /api/generate arrives with a validated payload
Receive(req) ==
  /\ pc = "idle"
  /\ pc' = "privacy"
  /\ payload' = Some(req)
  /\ UNCHANGED <<clock, privacy, terms, response, privacyRead, termsRead>>

\* privacy = generate_privacy(payload)
CallPrivacy ==
  /\ pc = "privacy"
  /\ IF ComposerFault(payload[1]) # None
     THEN /\ response' = Some(HTTPException(ComposerFault(payload[1])[1]))
          /\ pc' = "done"
          /\ UNCHANGED <<privacy, privacyRead>>
     ELSE /\ privacy' = Some(generate_privacy(payload[1], DateOf(clock)))
          /\ privacyRead' = (IF ReadsClock(payload[1]) THEN Some(clock) ELSE None)
          /\ pc' = "terms"
          /\ UNCHANGED response
  /\ UNCHANGED <<clock, payload, terms, termsRead>>

\* terms = generate_terms(payload)
CallTerms ==
  /\ pc = "terms"
  /\ IF ComposerFault(payload[1]) # None
     THEN /\ response' = Some(HTTPException(ComposerFault(payload[1])[1]))
          /\ pc' = "done"
          /\ UNCHANGED <<terms, termsRead>>
     ELSE /\ terms' = Some(generate_terms(payload[1], DateOf(clock)))
          /\ termsRead' = (IF ReadsClock(payload[1]) THEN Some(clock) ELSE None)
          /\ pc' = "return"
          /\ UNCHANGED response
  /\ UNCHANGED <<clock, payload, privacy, privacyRead>>

\* return GenerateResponse(privacy_policy=privacy, terms_of_service=terms)
Return ==
  /\ pc = "return"
  /\ response' = Some(GenerateResponse(privacy[1], terms[1]))
  /\ pc' = "done"
  /\ UNCHANGED <<clock, payload, privacy, terms, privacyRead, termsRead>>

\* the call is over: its locals are gone, the next request can arrive
Finish ==
  /\ pc = "done"
  /\ pc' = "idle"
  /\ payload' = None
  /\ privacy' = None
  /\ terms' = None
  /\ response' = None
  /\ privacyRead' = None
  /\ termsRead' = None
  /\ UNCHANGED clock

Next ==
  \/ Tick
  \/ \E req \in Requests : Receive(req)
  \/ CallPrivacy
  \/ CallTerms
  \/ Return
  \/ Finish

Spec == Init /\ [][Next]_vars

(***************************************************************************)
(* Reading a rendered document back: its lines, its title block and its    *)
(* sections (a title over an underline of dashes of the title's length,    *)
(* between blank lines).                                                   *)
(***************************************************************************)
\* the first position from `from` on that holds a line break, else Len + 1
FirstNL(doc, from) ==
  LET nls == {i \in from..Len(doc) : doc[i] = NL}
  IN  IF nls = {} THEN Len(doc) + 1
      ELSE CHOOSE i \in nls : \A j \in nls : i <= j

Line1(doc) == SubSeq(doc, 1, FirstNL(doc, 1) - 1)

Line2(doc) ==
  LET a == FirstNL(doc, 1)
  IN  SubSeq(doc, a + 1, FirstNL(doc, a + 1) - 1)

Contains(line, t) ==
  \E i \in 1..(Len(line) - Len(t) + 1) : SubSeq(line, i, i + Len(t) - 1) = t

HeadingAt(doc, i) ==
  /\ i >= 3
  /\ i + 4 <= Len(doc)
  /\ doc[i] # NL
  /\ doc[i - 2] = NL /\ doc[i - 1] = NL
  /\ doc[i + 1] = NL
  /\ doc[i + 3] = NL /\ doc[i + 4] = NL
  /\ doc[i + 2] # NL
  /\ Len(doc[i + 2]) = Len(doc[i])
  /\ doc[i + 2] = Dashes(Len(doc[i]))

\* the positions of the section titles, ascending
HeadingPositions(doc) ==
  SelectSeq([i \in 1..Len(doc) |-> i], LAMBDA i : HeadingAt(doc, i))

\* the sections of a document, in order: [title, body]
Sections(doc) ==
  LET hs == HeadingPositions(doc)
  IN  [k \in 1..Len(hs) |->
         [title |-> doc[hs[k]],
          body  |-> SubSeq(doc, hs[k] + 5,
                           IF k < Len(hs) THEN hs[k + 1] - 5 ELSE Len(doc))]]

\* what precedes the first section
TitleBlock(doc) ==
  LET hs == HeadingPositions(doc)
  IN  SubSeq(doc, 1, IF hs = <<>> THEN Len(doc) ELSE hs[1] - 5)

Titles(doc) ==
  LET secs == Sections(doc)
  IN  [k \in 1..Len(secs) |-> secs[k].title]

\* the bodies of the sections titled t
BodiesOf(doc, t) ==
  LET secs == Sections(doc)
  IN  {secs[k].body : k \in {j \in 1..Len(secs) : secs[j].title = t}}

\* a sequence without the entries whose title is t
RECURSIVE Without(_, _)
Without(secs, t) ==
  IF secs = <<>> THEN <<>>
  ELSE IF Head(secs).title = t THEN Without(Tail(secs), t)
  ELSE <<Head(secs)>> \o Without(Tail(secs), t)

\* a business name without its leading and trailing whitespace
Stripped(name) ==
  LET solid == {i \in 1..Len(name) : name[i] \notin {" ", NL, "\t"}}
  IN  IF solid = {} THEN <<>>
      ELSE SubSeq(name, CHOOSE i \in solid : \A j \in solid : i <= j,
                        CHOOSE i \in solid : \A j \in solid : i >= j)

\* the date a composer call got from the clock (any day when it did not ask)
ReadDate(r) == IF r = None THEN DateOf(1) ELSE DateOf(r[1])

\* generate_privacy has just returned into the local variable privacy
PrivacyDone == pc = "terms"

\* generate_terms has just returned into the local variable terms
TermsDone == pc = "return"

(***************************************************************************)
(* Claims.                                                                 *)
(***************************************************************************)
PrivacyCatalog ==
  <<"Introduction", "Information We Collect", "How We Use Information",
    "Cookies & Tracking", "Third-Party Services", "Accounts",
    "User-Generated Content", "Children's Privacy", "Data Retention",
    "Your Rights", "Security", "Contact Us", "Changes to this Policy",
    "Jurisdiction">>

TermsCatalog ==
  <<"Agreement to Terms", "Use of the Service", "Accounts & Security",
    "User Content", "Prohibited Activities", "Intellectual Property",
    "Fees & Payments", "Disclaimers", "Limitation of Liability",
    "Indemnification", "Governing Law; Disputes", "Termination",
    "Changes to Terms", "Contact">>

\* a catalog with the accounts clause acc kept iff allows_user_accounts and the
\* user-content clause uc kept iff allows_user_content
RECURSIVE Filtered(_, _, _, _)
Filtered(catalog, req, acc, uc) ==
  IF catalog = <<>> THEN <<>>
  ELSE LET t == Head(catalog)
           keep == /\ (t = acc => req.allows_user_accounts)
                   /\ (t = uc => req.allows_user_content)
       IN  (IF keep THEN <<t>> ELSE <<>>) \o Filtered(Tail(catalog), req, acc, uc)

\* C1: the section titles of each document are the catalog of its type, in
\* catalog order, less the accounts clause when allows_user_accounts is false
\* and the user-content clause when allows_user_content is false.
C1_ClauseOrder ==
  /\ PrivacyDone =>
       Titles(privacy[1]) =
         Filtered(PrivacyCatalog, payload[1], "Accounts", "User-Generated Content")
  /\ TermsDone =>
       Titles(terms[1]) =
         Filtered(TermsCatalog, payload[1], "Accounts & Security", "User Content")

C1_Witness ==
  /\ TermsDone
  /\ ~payload[1].allows_user_accounts
  /\ payload[1].allows_user_content
  /\ payload[1].description # None
  /\ Len(Titles(privacy[1])) = 13
  /\ Len(Titles(terms[1])) = 13

\* C2: every document begins with a title line that contains the business
\* name without its surrounding whitespace, and its next line is
\* "Effective date: <d>", d the request's effective_date as YYYY-MM-DD when
\* present and the clock's date at the call otherwise.
C2_TitleAndDate ==
  /\ PrivacyDone =>
       /\ Contains(Line1(privacy[1]), Stripped(payload[1].business_name))
       /\ Line2(privacy[1]) =
            <<"Effective date: ",
              IF payload[1].effective_date # None
              THEN isoformat(payload[1].effective_date[1])
              ELSE isoformat(ReadDate(privacyRead))>>
  /\ TermsDone =>
       /\ Contains(Line1(terms[1]), Stripped(payload[1].business_name))
       /\ Line2(terms[1]) =
            <<"Effective date: ",
              IF payload[1].effective_date # None
              THEN isoformat(payload[1].effective_date[1])
              ELSE isoformat(ReadDate(termsRead))>>

\* the request with collects_personal_data changed
ToggleCollects(req) ==
  [req EXCEPT !.collects_personal_data = ~req.collects_personal_data]

\* C3: changing only collects_personal_data changes only the body of the
\* Privacy Policy's "Information We Collect" clause; the title block, the
\* clause titles, their order and every other body stay the same, and the
\* Terms of Service stay the same as a whole.
C3_CollectsFrame ==
  /\ PrivacyDone =>
       LET a == privacy[1]
           b == generate_privacy(ToggleCollects(payload[1]), ReadDate(privacyRead))
           sa == Sections(a)
           sb == Sections(b)
       IN  /\ TitleBlock(a) = TitleBlock(b)
           /\ Len(sa) = Len(sb)
           /\ \A k \in 1..Len(sa) :
                /\ sa[k].title = sb[k].title
                /\ sa[k].title # "Information We Collect" => sa[k].body = sb[k].body
  /\ TermsDone =>
       terms[1] = generate_terms(ToggleCollects(payload[1]), ReadDate(termsRead))

C3_Witness ==
  /\ PrivacyDone
  /\ ~payload[1].collects_personal_data
  /\ ~payload[1].uses_third_party_tools
  /\ BodiesOf(privacy[1], "Information We Collect") #
       BodiesOf(generate_privacy(ToggleCollects(payload[1]), ReadDate(privacyRead)),
                "Information We Collect")

\* the request with allows_user_accounts set to false
NoAccounts(req) == [req EXCEPT !.allows_user_accounts = FALSE]

\* C4: for a request with allows_user_accounts, setting only that flag to
\* false removes exactly the "Accounts" clause of the Privacy Policy and the
\* "Accounts & Security" clause of the Terms: one clause fewer in each, the
\* rest unchanged and in the same order.
C4_AccountsRemoved ==
  /\ (PrivacyDone /\ payload[1].allows_user_accounts) =>
       LET a == privacy[1]
           b == generate_privacy(NoAccounts(payload[1]), ReadDate(privacyRead))
           sa == Sections(a)
           sb == Sections(b)
       IN  /\ Len(sb) = Len(sa) - 1
           /\ sb = Without(sa, "Accounts")
           /\ TitleBlock(b) = TitleBlock(a)
  /\ (TermsDone /\ payload[1].allows_user_accounts) =>
       LET a == terms[1]
           b == generate_terms(NoAccounts(payload[1]), ReadDate(termsRead))
           sa == Sections(a)
           sb == Sections(b)
       IN  /\ Len(sb) = Len(sa) - 1
           /\ sb = Without(sa, "Accounts & Security")
           /\ TitleBlock(b) = TitleBlock(a)

C4_Witness ==
  /\ TermsDone
  /\ payload[1].allows_user_accounts
  /\ payload[1].allows_user_content
  /\ Len(Sections(privacy[1])) = 14
  /\ Len(Sections(generate_terms(NoAccounts(payload[1]), ReadDate(termsRead)))) = 13

\* C5: the "Cookies & Tracking" clause is always there, once, and its body
\* is the cookie sentence, one space, the analytics sentence; each sentence
\* is the affirmative one iff its flag is true and the denial otherwise.
C5_CookiesTracking ==
  PrivacyDone =>
    BodiesOf(privacy[1], "Cookies & Tracking") =
      {<<IF payload[1].uses_cookies
         THEN "We use cookies and similar technologies to remember preferences and to understand how the Service is used."
         ELSE "We do not use cookies for tracking beyond what is strictly necessary to operate the Service.",
         " ",
         IF payload[1].uses_analytics
         THEN "We use analytics to understand usage and improve the Service."
         ELSE "We do not use third-party analytics tools for tracking.">>}

C5_Witness ==
  /\ PrivacyDone
  /\ payload[1].uses_cookies
  /\ ~payload[1].uses_analytics
  /\ \E b \in BodiesOf(privacy[1], "Cookies & Tracking") : Len(b) = 3

\* C6: with an explicit effective_date the output of each composer is the
\* same whatever day the clock shows at the call.
C6_ExplicitDateDeterministic ==
  /\ (PrivacyDone /\ payload[1].effective_date # None) =>
       \A day \in 1..MaxDay : privacy[1] = generate_privacy(payload[1], DateOf(day))
  /\ (TermsDone /\ payload[1].effective_date # None) =>
       \A day \in 1..MaxDay : terms[1] = generate_terms(payload[1], DateOf(day))

C6_Witness ==
  /\ TermsDone
  /\ payload[1].effective_date = Some(DateOf(1))
  /\ clock > 1
  /\ Line2(terms[1]) = <<"Effective date: ", "2024-12-31">>

\* C7: the body of the "Introduction" clause is the description verbatim
\* whenever a description is supplied, the empty text included, and the
\* synthesized sentence only when there is none.
C7_DescriptionVerbatim ==
  PrivacyDone =>
    BodiesOf(privacy[1], "Introduction") =
      {IF payload[1].description # None THEN payload[1].description[1]
       ELSE <<"This Privacy Policy explains how ">> \o
            Stripped(payload[1].business_name) \o
            <<" collects, uses, and shares information when you use ">> \o
            (IF payload[1].website_url # None THEN payload[1].website_url[1]
             ELSE <<"your website/app">>) \o
            <<" (the \"Service\").">>}

\* C8: a call ends in the success record, whose privacy_policy is the whole
\* output of generate_privacy and whose terms_of_service is the whole output
\* of generate_terms for the call's request; a 400 comes only from a
\* composer's fault and carries its description; no record holds one
\* document without the other.
C8_Response ==
  /\ response # None <=> pc = "done"
  /\ pc = "done" =>
       /\ ComposerFault(payload[1]) = None => response[1].status = 200
       /\ response[1].status = 200 =>
            /\ response[1].privacy_policy =
                 generate_privacy(payload[1], ReadDate(privacyRead))
            /\ response[1].terms_of_service =
                 generate_terms(payload[1], ReadDate(termsRead))
            /\ Titles(response[1].privacy_policy)[1] = "Introduction"
            /\ Titles(response[1].terms_of_service)[1] = "Agreement to Terms"
       /\ response[1].status # 200 =>
            /\ response[1].status = 400
            /\ ComposerFault(payload[1]) # None
            /\ response[1].detail = ComposerFault(payload[1])[1]

C8_Witness ==
  /\ pc = "done"
  /\ response[1].status = 200
  /\ response[1].privacy_policy # response[1].terms_of_service
  /\ payload[1].company_address # None

\* the request with every field the Terms are said not to read set to the
\* class default
TermsFields(req) ==
  [DefaultRequest EXCEPT !.business_name = req.business_name,
                         !.website_url = req.website_url,
                         !.effective_date = req.effective_date,
                         !.jurisdiction = req.jurisdiction,
                         !.allows_user_accounts = req.allows_user_accounts,
                         !.allows_user_content = req.allows_user_content]

\* the request with business_type and industries set to the class default
PrivacyFields(req) ==
  [req EXCEPT !.business_type = DefaultRequest.business_type,
              !.industries = DefaultRequest.industries]

\* C9: the Terms depend only on business_name, website_url, effective_date
\* (or the clock), jurisdiction, allows_user_accounts and allows_user_content;
\* their "Contact" clause is fixed wording without the contact email; the
\* Privacy Policy does not depend on business_type or industries.
C9_Frame ==
  /\ TermsDone =>
       /\ terms[1] = generate_terms(TermsFields(payload[1]), ReadDate(termsRead))
       /\ BodiesOf(terms[1], "Contact") =
            {<<"For questions about these Terms, please contact us at the email listed in the Privacy Policy.">>}
       /\ payload[1].contact_email # None =>
            ~Contains(terms[1], payload[1].contact_email[1])
  /\ PrivacyDone =>
       privacy[1] = generate_privacy(PrivacyFields(payload[1]), ReadDate(privacyRead))

C9_Witness ==
  /\ TermsDone
  /\ payload[1].contact_email # None
  /\ payload[1].business_type # DefaultRequest.business_type
  /\ payload[1].industries # None
  /\ payload[1] # TermsFields(payload[1])

\* C10: in one response to a request without effective_date the two
\* documents carry the same effective-date line.
C10_SameDate ==
  (pc = "done" /\ response[1].status = 200 /\ payload[1].effective_date = None) =>
    Line2(response[1].privacy_policy) = Line2(response[1].terms_of_service)

====
